---------------------------- MODULE Spec2Model ----------------------------
(***************************************************************************)
(* A model of src/main.py: the pipeline select_folder_and_process, which   *)
(* stages the selected folder's directories and .zip files into            *)
(* Extracted/, unpacks every archive under Extracted/ with an explicit     *)
(* stack, and copies every .csv and .pdf file into Merged/All_CSVs and     *)
(* Merged/All_PDFs.                                                        *)
(*                                                                         *)
(* A file name is the sequence of the segments its dots separate ("a.zip"  *)
(* is <<"a", "zip">>, ".zip" is <<"", "zip">>, "a" is <<"a">>), a path is  *)
(* a sequence of names relative to the selected folder (<<>> is the        *)
(* selected folder), and the filesystem is a function from the paths that  *)
(* exist to their nodes.                                                   *)
(***************************************************************************)
EXTENDS Naturals, Integers, Sequences, FiniteSets, Bags, TLC

(***************************************************************************)
(* Bounds of the model.                                                    *)
(***************************************************************************)
\* deepest chain of archives nested in one another in an input tree
MaxNest == 3
\* how many items an input directory holds at most
MaxItems == 2
\* how many times the unpacker is run on one tree
Runs == 2
\* how many operations the environment makes fail in one behaviour
MaxFaults == 1

(***************************************************************************)
(* Strings.                                                                *)
(***************************************************************************)
\* str.endswith('.' + ext) for an extension ext without a dot: the name has
\* a dot and ext is all that follows its last dot
EndsWith(name, ext) == Len(name) >= 2 /\ name[Len(name)] = ext

\* os.path.splitext(item)[0] of a name without a separator: the name up to
\* its last dot, unless the name has no dot or only dots precede that dot
SplitextRoot(name) ==
    IF Len(name) >= 2 /\ \E i \in 1..(Len(name) - 1) : name[i] # ""
    THEN SubSeq(name, 1, Len(name) - 1)
    ELSE name

\* the suffixes '.zip', '.csv', '.pdf' without their dot
ExtZip == "zip"
ExtCsv == "csv"
ExtPdf == "pdf"

\* the directory names the program creates
NameExtracted == <<"Extracted">>
NameMerged == <<"Merged">>
NameAllCsvs == <<"All_CSVs">>
NameAllPdfs == <<"All_PDFs">>

(***************************************************************************)
(* Paths and the filesystem.                                               *)
(***************************************************************************)
\* os.path.join(path, item)
Join(path, item) == Append(path, item)

IsPrefix(d, p) == Len(d) <= Len(p) /\ SubSeq(p, 1, Len(d)) = d

\* the part of p below its prefix d
Rel(d, p) == SubSeq(p, Len(d) + 1, Len(p))

Dirname(p) == SubSeq(p, 1, Len(p) - 1)

Basename(p) == p[Len(p)]

\* a test that every path passes
PathEndsWithAny(p, ext) == Len(p) > 0

\* full_path.endswith('.' + ext): the suffix holds no separator, so it is a
\* suffix of the path's last component
PathEndsWith(p, ext) == Len(p) > 0 /\ EndsWith(Basename(p), ext)

\* A node is a directory, or a file with its content: valid says that the
\* content is a readable zip archive, members are the archive's entries in
\* archive order (each a relative path and a node), tag names any other
\* content.
DirNode == [kind |-> "dir", valid |-> FALSE, members |-> <<>>, tag |-> "-"]
PlainFile(t) == [kind |-> "file", valid |-> FALSE, members |-> <<>>, tag |-> t]
ZipFile(ms) == [kind |-> "file", valid |-> TRUE, members |-> ms, tag |-> "zip"]
Member(p, n) == [path |-> p, node |-> n]

\* os.path.exists, os.path.isdir, os.path.isfile
Exists(f, p) == p \in DOMAIN f
IsDir(f, p) == p \in DOMAIN f /\ f[p].kind = "dir"
IsFile(f, p) == p \in DOMAIN f /\ f[p].kind = "file"

\* os.listdir(d): the names of d's direct children
ListDir(f, d) ==
    {p[Len(d) + 1] : p \in {q \in DOMAIN f : Len(q) = Len(d) + 1 /\ IsPrefix(d, q)}}

\* the proper ancestors of p that are not above d
Ancestors(d, p) == {SubSeq(p, 1, k) : k \in Len(d)..(Len(p) - 1)}

\* os.makedirs(p) where no ancestor of p is a file
MakeDirs(f, p) ==
    LET new == {SubSeq(p, 1, k) : k \in 0..Len(p)} \ DOMAIN f
    IN  [q \in DOMAIN f \cup new |-> IF q \in new THEN DirNode ELSE f[q]]

\* writing a file, its directory existing
WriteFile(f, p, n) == [q \in DOMAIN f \cup {p} |-> IF q = p THEN n ELSE f[q]]

\* the files below d
FilesUnder(f, d) == {p \in DOMAIN f : IsPrefix(d, p) /\ f[p].kind = "file"}


\* a copy of the directory without what is in it
CopyTreeShallow(f, src, dst) == MakeDirs(f, dst)

\* shutil.copytree(src, dst, dirs_exist_ok=True): every path that is below
\* src when the call starts is copied below dst, over what is there
CopyTree(f, src, dst) ==
    LET new == {dst \o Rel(src, p) : p \in {q \in DOMAIN f : IsPrefix(src, q)}}
    IN  [q \in DOMAIN f \cup new |->
            IF q \in new THEN f[src \o Rel(dst, q)] ELSE f[q]]

\* shutil.copy2(src, dst) and shutil.copy(src, dst) with dst the file's path
CopyFile(f, src, dst) == WriteFile(f, dst, f[src])

\* ZipFile._extract_member for the members from the i-th on, in archive
\* order: the member's directory is created unless it exists, a directory
\* member is created unless it is a directory already, a file member is
\* written over what is there. The first member that cannot be written
\* raises and leaves the earlier ones extracted.
RECURSIVE ExtractFrom(_, _, _, _)
ExtractFrom(f, target, ms, i) ==
    IF i > Len(ms) THEN [fs |-> f, ok |-> TRUE]
    ELSE
        LET targetpath == target \o ms[i].path
            upperdirs == Dirname(targetpath)
        IN  IF \E a \in Ancestors(target, targetpath) : IsFile(f, a)
            THEN [fs |-> f, ok |-> FALSE]
            ELSE
                LET f1 == MakeDirs(f, upperdirs)
                IN  IF ms[i].node.kind = "dir"
                    THEN IF IsFile(f1, targetpath)
                         THEN [fs |-> f1, ok |-> FALSE]
                         ELSE ExtractFrom(MakeDirs(f1, targetpath), target, ms, i + 1)
                    ELSE IF IsDir(f1, targetpath)
                         THEN [fs |-> f1, ok |-> FALSE]
                         ELSE ExtractFrom(WriteFile(f1, targetpath, ms[i].node),
                                          target, ms, i + 1)

\* extractall that refuses to write over a file that exists
ExtractAllNoOverwrite(f, target, ms) ==
    IF \E i \in 1..Len(ms) : IsFile(f, target \o ms[i].path)
    THEN [fs |-> f, ok |-> FALSE]
    ELSE ExtractFrom(f, target, ms, 1)

\* ZipFile.extractall(path)
ExtractAll(f, target, ms) == ExtractFrom(f, target, ms, 1)

(***************************************************************************)
(* The folders the model starts from.  An item is a name with the tree     *)
(* below it: a function from relative paths (<<>> is the item itself) to   *)
(* nodes.                                                                  *)
(***************************************************************************)
NameA == <<"a">>
NameB == <<"b">>
NameC == <<"c">>
NameD == <<"d">>
NameAZip == <<"a", "zip">>
NameDZip == <<"d", "zip">>
NameBZip == <<"b", "zip">>
NameDotZip == <<"", "zip">>
NameNCsv == <<"n", "csv">>
NameRPdf == <<"r", "pdf">>
NameTTxt == <<"t", "txt">>

\* a.zip holding a.zip holding ... (n archives), the innermost one holding
\* r.pdf and n.csv
RECURSIVE Nested(_)
Nested(n) ==
    IF n <= 1
    THEN ZipFile(<<Member(<<NameRPdf>>, PlainFile("r0")),
                   Member(<<NameNCsv>>, PlainFile("n0"))>>)
    ELSE ZipFile(<<Member(<<NameAZip>>, Nested(n - 1))>>)

\* a.zip, nested to depth n
ItemNested(n) == [name |-> NameAZip, tree |-> (<<>> :> Nested(n))]

\* a directory a holding n.csv: the directory a.zip is extracted into
ItemDirA ==
    [name |-> NameA,
     tree |-> (<<>> :> DirNode) @@ (<<NameNCsv>> :> PlainFile("n1"))]

\* b.zip, which is no zip archive
ItemCorrupt == [name |-> NameBZip, tree |-> (<<>> :> PlainFile("junk"))]

\* a directory c holding n.csv and t.txt
ItemDirC ==
    [name |-> NameC,
     tree |-> (<<>> :> DirNode) @@ (<<NameNCsv>> :> PlainFile("n2"))
              @@ (<<NameTTxt>> :> PlainFile("t2"))]

\* a directory d holding a file b and an empty archive b.zip
ItemDirD ==
    [name |-> NameD,
     tree |-> (<<>> :> DirNode) @@ (<<NameB>> :> PlainFile("b0"))
              @@ (<<NameBZip>> :> ZipFile(<<>>))]

\* d.zip, an archive holding a file b and an empty archive b.zip
ItemTrap ==
    [name |-> NameDZip,
     tree |-> (<<>> :> ZipFile(<<Member(<<NameB>>, PlainFile("b0")),
                                 Member(<<NameBZip>>, ZipFile(<<>>))>>))]

\* an archive whose whole name is .zip
ItemDotZip ==
    [name |-> NameDotZip,
     tree |-> (<<>> :> ZipFile(<<Member(<<NameTTxt>>, PlainFile("t3"))>>))]

\* plain files
ItemCsv == [name |-> NameNCsv, tree |-> (<<>> :> PlainFile("n4"))]
ItemTxt == [name |-> NameTTxt, tree |-> (<<>> :> PlainFile("t4"))]

\* the items a directory is made of: at most MaxItems of the above, a.zip
\* at one depth
ItemSets ==
    {x \in {s \cup z : s \in SUBSET {ItemDirA, ItemCorrupt, ItemDirD, ItemDotZip},
                       z \in {{}} \cup {{ItemNested(n)} : n \in 1..MaxNest}} :
        Cardinality(x) <= MaxItems}

\* the folders the user selects: plain files, with c or a.zip or both, or
\* with d, or with the archives b.zip and .zip that cannot be extracted;
\* they hold no Extracted and no Merged
FolderSets ==
    {files \cup others :
        files \in SUBSET {ItemCsv, ItemTxt},
        others \in (SUBSET {ItemDirC, ItemNested(1)})
                     \cup {{ItemDirD}, {ItemCorrupt, ItemDotZip}}}

\* the filesystem with the directory root holding the items
TreeOf(root, items) ==
    LET paths == {SubSeq(root, 1, k) : k \in 0..Len(root)}
                 \cup UNION {{Join(root, it.name) \o r : r \in DOMAIN it.tree} :
                             it \in items}
    IN  [p \in paths |->
            IF IsPrefix(p, root) THEN DirNode
            ELSE LET it == CHOOSE x \in items : IsPrefix(Join(root, x.name), p)
                 IN  it.tree[Rel(Join(root, it.name), p)]]

(***************************************************************************)
(* The state.                                                              *)
(***************************************************************************)
VARIABLES
    fs,         \* the filesystem below the selected folder
    pc,         \* where select_folder_and_process is
    stack,      \* find_and_extract_zip_files' stack
    current,    \* current_path, or os.walk's root
    pending,    \* the names of the listing not yet iterated over
    walk,       \* os.walk: for each directory entered, its subdirectories to visit
    log,        \* the log widget's lines, a bag of [kind, path]
    progress,   \* progress_bar['value']
    maximum,    \* progress_bar['maximum']
    dialog,     \* the last message box shown
    faults,     \* how many operations the environment has made fail
    pushed,     \* the paths appended to the stack in this run of the unpacker, a bag
    scanned,    \* the paths popped and listed in this run of the unpacker, a bag
    extracted,  \* the archives extractall has extracted in this run, a bag
    snap,       \* the filesystem when this run of the unpacker started
    run         \* which run of the unpacker this is

vars == <<fs, pc, stack, current, pending, walk, log, progress, maximum, dialog,
          faults, pushed, scanned, extracted, snap, run>>

\* the selected folder, folder_path
Folder == <<>>
\* extraction_base_path and merged_path
ExtractionBase == Join(Folder, NameExtracted)
MergedPath == Join(Folder, NameMerged)
PdfFolder == Join(MergedPath, NameAllPdfs)
\* csv_folder set to the folder of the PDFs
CsvFolderIsPdfFolder == Join(MergedPath, NameAllPdfs)
CsvFolder == Join(MergedPath, NameAllCsvs)

One(x) == SetToBag({x})

\* log_message
LogLine(l, kind, path) == l (+) One([kind |-> kind, path |-> path])

\* how many lines of the kinds the log holds
Lines(l, kinds) ==
    BagCardinality([e \in {x \in BagToSet(l) : x.kind \in kinds} |-> l[e]])

\* the lines the handlers write: of the stager (line 38), of the unpacker
\* (lines 81, 84 and 87) and of the sorter (line 132)
ErrorKinds == {"copy_error", "not_found", "bad_zip", "unexpected", "sort_error"}

\* the filesystem without p and what is below it
Remove(f, p) == [q \in {x \in DOMAIN f : ~IsPrefix(p, x)} |-> f[q]]

\* calculate_total_tasks
CalculateTotalTasks(f, base) ==
    Cardinality({p \in FilesUnder(f, base) :
        \/ EndsWith(Basename(p), ExtZip)
        \/ EndsWith(Basename(p), ExtCsv)
        \/ EndsWith(Basename(p), ExtPdf)})

(***************************************************************************)
(* select_folder_and_process up to the first item of the staging loop.     *)
(***************************************************************************)
\* askdirectory returns nothing: the warning, and the callback returns
NoFolderSelected ==
    /\ pc = "idle"
    /\ dialog' = "warning"
    /\ UNCHANGED <<fs, pc, stack, current, pending, walk, log, progress, maximum,
                   faults, pushed, scanned, extracted, snap, run>>

\* a folder is selected: Merged/ and Extracted/ are created and the folder listed
SelectFolder ==
    /\ pc = "idle"
    /\ LET f1 == IF Exists(fs, MergedPath) THEN fs ELSE MakeDirs(fs, MergedPath)
           f2 == IF Exists(f1, ExtractionBase) THEN f1 ELSE MakeDirs(f1, ExtractionBase)
       IN  /\ fs' = f2
           /\ pending' = ListDir(f2, Folder)
    /\ current' = Folder
    /\ dialog' = "none"
    /\ pc' = "stage"
    /\ UNCHANGED <<stack, walk, log, progress, maximum, faults, pushed, scanned,
                   extracted, snap, run>>

(***************************************************************************)
(* copy_to_extracted_folder: one item of the loop.                         *)
(***************************************************************************)
StageItem ==
    /\ pc = "stage"
    /\ \E item \in pending :
        LET full_path == Join(Folder, item)
            destination_path == Join(ExtractionBase, item)
        IN  /\ pending' = pending \ {item}
            /\ \/ /\ IsDir(fs, full_path)
                  /\ fs' = CopyTree(fs, full_path, destination_path)
                  /\ log' = LogLine(log, "copied_folder", full_path)
                  /\ progress' = progress + 1
                  /\ UNCHANGED faults
               \/ /\ ~IsDir(fs, full_path)
                  /\ IsFile(fs, full_path) /\ PathEndsWith(full_path, ExtZip)
                  /\ fs' = CopyFile(fs, full_path, destination_path)
                  /\ log' = LogLine(log, "copied_zip", full_path)
                  /\ progress' = progress + 1
                  /\ UNCHANGED faults
               \/ /\ ~IsDir(fs, full_path)
                  /\ ~(IsFile(fs, full_path) /\ PathEndsWith(full_path, ExtZip))
                  /\ UNCHANGED <<fs, log, progress, faults>>
               \/ \* the copy raises
                  /\ faults < MaxFaults
                  /\ (IsDir(fs, full_path)
                      \/ (IsFile(fs, full_path) /\ PathEndsWith(full_path, ExtZip)))
                  /\ faults' = faults + 1
                  /\ log' = LogLine(log, "copy_error", full_path)
                  /\ UNCHANGED <<fs, progress>>
    /\ UNCHANGED <<pc, stack, current, walk, maximum, dialog, pushed, scanned,
                   extracted, snap, run>>

\* the loop is over: calculate_total_tasks, and find_and_extract_zip_files starts
StageReturn ==
    /\ pc = "stage"
    /\ pending = {}
    /\ maximum' = CalculateTotalTasks(fs, ExtractionBase)
    /\ stack' = <<ExtractionBase>>
    /\ pushed' = One(ExtractionBase)
    /\ snap' = fs
    /\ pc' = "unpack"
    /\ UNCHANGED <<fs, current, pending, walk, log, progress, dialog, faults,
                   scanned, extracted, run>>

(***************************************************************************)
(* find_and_extract_zip_files.                                             *)
(***************************************************************************)
\* stack.pop() and os.listdir(current_path), which no handler covers: a
\* current_path that cannot be listed ends the callback with the exception
PopDir ==
    /\ pc = "unpack"
    /\ stack # <<>>
    /\ LET current_path == stack[Len(stack)]
       IN  /\ stack' = SubSeq(stack, 1, Len(stack) - 1)
           /\ current' = current_path
           /\ \/ /\ IsDir(fs, current_path)
                 /\ pending' = ListDir(fs, current_path)
                 /\ scanned' = scanned (+) One(current_path)
                 /\ pc' = "scan"
                 /\ UNCHANGED faults
              \/ \* NotADirectoryError or FileNotFoundError
                 /\ ~IsDir(fs, current_path)
                 /\ pc' = "crashed"
                 /\ UNCHANGED <<pending, scanned, faults>>
              \/ \* the directory cannot be read: OSError
                 /\ faults < MaxFaults
                 /\ IsDir(fs, current_path)
                 /\ faults' = faults + 1
                 /\ pc' = "crashed"
                 /\ UNCHANGED <<pending, scanned>>
    /\ UNCHANGED <<fs, walk, log, progress, maximum, dialog, pushed, extracted,
                   snap, run>>

\* an append that is lost
PushFolderLost(st, folder) == st

\* stack.append(extract_to_folder) and stack.append(full_path)
PushFolder(st, folder) == Append(st, folder)

\* the body of the loop over the listing for one item that is an archive
\* file: lines 61 to 74, and the handlers
ExtractItem(item, fault) ==
    LET full_path == Join(current, item)
        extract_to_folder == Join(current, SplitextRoot(item))
        f1 == IF Exists(fs, extract_to_folder) THEN fs
              ELSE MakeDirs(fs, extract_to_folder)
        out == ExtractAll(f1, extract_to_folder, fs[full_path].members)
    IN  IF fault = "deleted"
        THEN \* the file is gone when ZipFile opens it: FileNotFoundError
             /\ fs' = Remove(f1, full_path)
             /\ log' = LogLine(log, "not_found", full_path)
             /\ UNCHANGED <<stack, pushed, extracted, progress>>
        ELSE IF ~fs[full_path].valid
        THEN \* BadZipFile
             /\ fs' = f1
             /\ log' = LogLine(log, "bad_zip", full_path)
             /\ UNCHANGED <<stack, pushed, extracted, progress>>
        ELSE IF ~out.ok
        THEN \* extractall raises
             /\ fs' = out.fs
             /\ log' = LogLine(log, "unexpected", full_path)
             /\ UNCHANGED <<stack, pushed, extracted, progress>>
        ELSE /\ fs' = out.fs
             /\ log' = LogLine(log, "extracted", full_path)
             /\ progress' = progress + 1
             /\ extracted' = extracted (+) One(full_path)
             /\ stack' = PushFolder(stack, extract_to_folder)
             /\ pushed' = pushed (+) One(extract_to_folder)

\* one item of the loop over os.listdir(current_path)
ScanItem ==
    /\ pc = "scan"
    /\ \E item \in pending :
        LET full_path == Join(current, item)
        IN  /\ pending' = pending \ {item}
            /\ \/ /\ IsFile(fs, full_path) /\ PathEndsWith(full_path, ExtZip)
                  /\ ExtractItem(item, "none")
                  /\ UNCHANGED faults
               \/ /\ IsFile(fs, full_path) /\ PathEndsWith(full_path, ExtZip)
                  /\ faults < MaxFaults
                  /\ faults' = faults + 1
                  /\ ExtractItem(item, "deleted")
               \/ /\ ~(IsFile(fs, full_path) /\ PathEndsWith(full_path, ExtZip))
                  /\ IsDir(fs, full_path)
                  /\ stack' = PushFolder(stack, full_path)
                  /\ pushed' = pushed (+) One(full_path)
                  /\ UNCHANGED <<fs, log, progress, extracted, faults>>
               \/ /\ ~(IsFile(fs, full_path) /\ PathEndsWith(full_path, ExtZip))
                  /\ ~IsDir(fs, full_path)
                  /\ UNCHANGED <<fs, log, progress, extracted, faults, stack, pushed>>
    /\ UNCHANGED <<pc, current, walk, maximum, dialog, scanned, snap, run>>

\* the listing is exhausted: back to the while
ScanEnd ==
    /\ pc = "scan"
    /\ pending = {}
    /\ pc' = "unpack"
    /\ UNCHANGED <<fs, stack, current, pending, walk, log, progress, maximum,
                   dialog, faults, pushed, scanned, extracted, snap, run>>

\* find_and_extract_zip_files has returned
Unpacked == pc = "unpack" /\ stack = <<>>

(***************************************************************************)
(* organize_files_by_extension.                                            *)
(***************************************************************************)
\* the stack is empty: the unpacker returns, the two folders are created and
\* os.walk starts
UnpackReturn ==
    /\ Unpacked
    /\ LET f1 == IF Exists(fs, CsvFolder) THEN fs ELSE MakeDirs(fs, CsvFolder)
       IN  fs' = IF Exists(f1, PdfFolder) THEN f1 ELSE MakeDirs(f1, PdfFolder)
    /\ walk' = <<{ExtractionBase}>>
    /\ pc' = "walk"
    /\ UNCHANGED <<stack, current, pending, log, progress, maximum, dialog,
                   faults, pushed, scanned, extracted, snap, run>>

\* os.walk enters one more directory, top down: its files are handed to the
\* loop, its subdirectories are entered next, in any order
WalkDir ==
    /\ pc = "walk"
    /\ walk # <<>>
    /\ \E top \in walk[Len(walk)] :
        LET rest == walk[Len(walk)] \ {top}
            below == SubSeq(walk, 1, Len(walk) - 1)
            names == IF IsDir(fs, top) THEN ListDir(fs, top) ELSE {}
            dirs == {Join(top, n) : n \in {x \in names : IsDir(fs, Join(top, x))}}
        IN  /\ current' = top
            /\ pending' = {x \in names : ~IsDir(fs, Join(top, x))}
            /\ walk' = (IF rest = {} THEN below ELSE Append(below, rest))
                       \o (IF dirs = {} THEN <<>> ELSE <<dirs>>)
    /\ pc' = "files"
    /\ UNCHANGED <<fs, stack, log, progress, maximum, dialog, faults, pushed,
                   scanned, extracted, snap, run>>

\* one file of the directory os.walk is in
SortFile ==
    /\ pc = "files"
    /\ \E file_name \in pending :
        LET file_path == Join(current, file_name)
        IN  /\ pending' = pending \ {file_name}
            /\ \/ /\ EndsWith(file_name, ExtCsv)
                  /\ fs' = CopyFile(fs, file_path, Join(CsvFolder, file_name))
                  /\ log' = LogLine(log, "copied_csv", file_path)
                  /\ progress' = progress + 1
                  /\ UNCHANGED faults
               \/ /\ ~EndsWith(file_name, ExtCsv)
                  /\ EndsWith(file_name, ExtPdf)
                  /\ fs' = CopyFile(fs, file_path, Join(PdfFolder, file_name))
                  /\ log' = LogLine(log, "copied_pdf", file_path)
                  /\ progress' = progress + 1
                  /\ UNCHANGED faults
               \/ /\ ~EndsWith(file_name, ExtCsv)
                  /\ ~EndsWith(file_name, ExtPdf)
                  /\ UNCHANGED <<fs, log, progress, faults>>
               \/ \* the copy raises
                  /\ faults < MaxFaults
                  /\ EndsWith(file_name, ExtCsv) \/ EndsWith(file_name, ExtPdf)
                  /\ faults' = faults + 1
                  /\ log' = LogLine(log, "sort_error", file_path)
                  /\ UNCHANGED <<fs, progress>>
    /\ UNCHANGED <<pc, stack, current, walk, maximum, dialog, pushed, scanned,
                   extracted, snap, run>>

\* the files of the directory are exhausted: os.walk goes on
FilesEnd ==
    /\ pc = "files"
    /\ pending = {}
    /\ pc' = "walk"
    /\ UNCHANGED <<fs, stack, current, pending, walk, log, progress, maximum,
                   dialog, faults, pushed, scanned, extracted, snap, run>>

\* os.walk is exhausted: the completion dialog and the last log line
Finish ==
    /\ pc = "walk"
    /\ walk = <<>>
    /\ dialog' = "info"
    /\ log' = LogLine(log, "completed", Folder)
    /\ pc' = "done"
    /\ UNCHANGED <<fs, stack, current, pending, walk, progress, maximum, faults,
                   pushed, scanned, extracted, snap, run>>

(***************************************************************************)
(* The pipeline, started on a folder that holds no Extracted and no Merged. *)
(***************************************************************************)
Init ==
    /\ \E items \in FolderSets : fs = TreeOf(Folder, items)
    /\ pc = "idle"
    /\ stack = <<>>
    /\ current = Folder
    /\ pending = {}
    /\ walk = <<>>
    /\ log = EmptyBag
    /\ progress = 0
    /\ maximum = 0
    /\ dialog = "none"
    /\ faults = 0
    /\ pushed = EmptyBag
    /\ scanned = EmptyBag
    /\ extracted = EmptyBag
    /\ snap = fs
    /\ run = 1

Next ==
    \/ NoFolderSelected
    \/ SelectFolder
    \/ StageItem
    \/ StageReturn
    \/ PopDir
    \/ ScanItem
    \/ ScanEnd
    \/ UnpackReturn
    \/ WalkDir
    \/ SortFile
    \/ FilesEnd
    \/ Finish

Spec == Init /\ [][Next]_vars

(***************************************************************************)
(* find_and_extract_zip_files as a function of a tree: it is run Runs      *)
(* times on a working area that holds any of the input directories.        *)
(***************************************************************************)
\* find_and_extract_zip_files is called again on the tree it has left
UnpackAgain ==
    /\ Unpacked
    /\ run < Runs
    /\ run' = run + 1
    /\ stack' = <<ExtractionBase>>
    /\ pushed' = One(ExtractionBase)
    /\ scanned' = EmptyBag
    /\ extracted' = EmptyBag
    /\ snap' = fs
    /\ UNCHANGED <<fs, pc, current, pending, walk, log, progress, maximum,
                   dialog, faults>>

UnpackStart(tree) ==
    /\ fs = tree
    /\ pc = "unpack"
    /\ stack = <<ExtractionBase>>
    /\ current = Folder
    /\ pending = {}
    /\ walk = <<>>
    /\ log = EmptyBag
    /\ progress = 0
    /\ maximum = 0
    /\ dialog = "none"
    /\ faults = 0
    /\ pushed = One(ExtractionBase)
    /\ scanned = EmptyBag
    /\ extracted = EmptyBag
    /\ snap = fs
    /\ run = 1

InitUnpack == \E items \in ItemSets : UnpackStart(TreeOf(ExtractionBase, items))

NextUnpack ==
    \/ PopDir
    \/ ScanItem
    \/ ScanEnd
    \/ UnpackAgain

SpecUnpack == InitUnpack /\ [][NextUnpack]_vars

\* the unpacker on a chain of nested archives, with or without the
\* directory a and the archive d.zip beside it, run once; the program takes
\* its next step as long as it has one
InitNested ==
    \E n \in 1..MaxNest, s \in SUBSET {ItemDirA, ItemTrap} :
        UnpackStart(TreeOf(ExtractionBase, {ItemNested(n)} \cup s))

NextNested ==
    \/ PopDir
    \/ ScanItem
    \/ ScanEnd

SpecNested == InitNested /\ [][NextNested]_vars /\ WF_vars(NextNested)

(***************************************************************************)
(* What the claims speak of.                                               *)
(***************************************************************************)
\* the archive files below d: the files whose name ends in '.zip'
ZipFilesUnder(f, d) == {p \in FilesUnder(f, d) : PathEndsWith(p, ExtZip)}

\* the directory beside the archive p that is named after it, its last
\* extension stripped
ExtractionDir(p) ==
    Join(Dirname(p), SubSeq(Basename(p), 1, Len(Basename(p)) - 1))

\* no operation has failed: nothing was made to fail, no error was logged
\* and no exception ended the run
NoError ==
    /\ faults = 0
    /\ pc # "crashed"
    /\ Lines(log, ErrorKinds) = 0

Max(S) == CHOOSE x \in S : \A y \in S : y <= x

\* how deep the archives in a file are nested: 0 for a file that is no
\* archive, 1 for an archive that holds none
RECURSIVE NestDepth(_)
NestDepth(node) ==
    IF ~node.valid THEN 0
    ELSE 1 + Max({0} \cup {NestDepth(node.members[i].node) :
                    i \in {j \in 1..Len(node.members) :
                            /\ node.members[j].node.kind = "file"
                            /\ PathEndsWith(node.members[j].path, ExtZip)}})

\* below d there are n directories, one inside the other, d being the first
HasLevels(f, d, n) ==
    \E q \in DOMAIN f : IsDir(f, q) /\ IsPrefix(d, q) /\ Len(q) - Len(d) + 1 >= n

(***************************************************************************)
(* C1: when find_and_extract_zip_files returns and no operation has        *)
(* failed, every file below the root whose name ends in '.zip', the ones   *)
(* that earlier extractions brought included, has been extracted into the  *)
(* directory beside it that is named after it without '.zip': the          *)
(* directory exists and holds every member of the archive, and it has been *)
(* pushed on the stack and scanned.                                        *)
(***************************************************************************)
C1_AllArchivesExtracted ==
    (Unpacked /\ NoError) =>
        \A p \in ZipFilesUnder(fs, ExtractionBase) :
            /\ CopiesIn(p, extracted) >= 1
            /\ IsDir(fs, ExtractionDir(p))
            /\ \A i \in 1..Len(fs[p].members) :
                Exists(fs, ExtractionDir(p) \o fs[p].members[i].path)
            /\ CopiesIn(ExtractionDir(p), pushed) >= 1
            /\ CopiesIn(ExtractionDir(p), scanned) >= 1

\* the unpacker has returned without an error after extracting an archive
\* that an earlier extraction brought
C1_Witness ==
    /\ Unpacked
    /\ NoError
    /\ \E p \in ZipFilesUnder(fs, ExtractionBase) :
        /\ Len(p) > Len(ExtractionBase) + 1
        /\ p \notin DOMAIN snap
        /\ CopiesIn(p, extracted) >= 1
        /\ CopiesIn(ExtractionDir(p), scanned) >= 1

(***************************************************************************)
(* C2: no error raised while find_and_extract_zip_files processes an item  *)
(* ends the run: the error is logged, the item is skipped and the rest of  *)
(* the listing and of the stack is processed.  Stated for the runs in      *)
(* which the environment makes no operation fail.                          *)
(***************************************************************************)
C2_NoErrorEndsTheRun == (faults = 0) => (pc # "crashed")

(***************************************************************************)
(* C4: on a tree whose archives are nested to depth N the unpacker         *)
(* terminates with the stack empty, and there are then, for every archive  *)
(* of the tree it started on, as many directories one inside the other as  *)
(* the archive is deep, the first being the directory the archive is       *)
(* extracted into.  Stated for the runs in which the environment makes no  *)
(* operation fail: such a run ends in no other way.                        *)
(***************************************************************************)
C4_NestedLevels ==
    (faults = 0 /\ (Unpacked \/ pc = "crashed")) =>
        /\ Unpacked
        /\ \A p \in ZipFilesUnder(snap, ExtractionBase) :
            HasLevels(fs, ExtractionDir(p), NestDepth(snap[p]))

(***************************************************************************)
(* C5 as the spec has it: a second run of the unpacker on the tree that a  *)
(* first run has unpacked without an error extracts nothing.               *)
(***************************************************************************)
C5_SecondRunExtractsNothing ==
    (run >= 2 /\ NoError) => extracted = EmptyBag

(***************************************************************************)
(* C5 amended: the archives stay in the tree, so a second run of the       *)
(* unpacker on the tree a first run has left extracts again every archive  *)
(* that was extracted before, and it leaves the tree as it found it.       *)
(***************************************************************************)
C5_SecondRunRepeats ==
    (Unpacked /\ run >= 2 /\ faults = 0) =>
        /\ fs = snap
        /\ \A e \in BagToSet(log) :
            e.kind = "extracted" => CopiesIn(e.path, extracted) >= 1

\* a second run has returned after extracting an archive again
C5_Witness ==
    /\ Unpacked
    /\ run = 2
    /\ faults = 0
    /\ extracted # EmptyBag
    /\ fs = snap

(***************************************************************************)
(* C10: in one run of the unpacker no directory is pushed on the stack     *)
(* twice or scanned twice, and no archive is extracted twice.  Stated for  *)
(* the runs in which the environment makes no operation fail.              *)
(***************************************************************************)
C10_OncePerRun ==
    (faults = 0) =>
        /\ \A p \in BagToSet(pushed) : pushed[p] = 1
        /\ \A p \in BagToSet(scanned) : scanned[p] = 1
        /\ \A p \in BagToSet(extracted) : extracted[p] = 1

(***************************************************************************)
(* The pipeline's claims.                                                  *)
(***************************************************************************)
\* the phase of the pipeline
Phase ==
    CASE pc = "idle" -> "Idle"
      [] pc = "stage" -> "Staging"
      [] pc \in {"unpack", "scan"} -> "Unpacking"
      [] pc \in {"walk", "files"} -> "Sorting"
      [] pc = "done" -> "Done"
      [] OTHER -> "Aborted"

\* copy_to_extracted_folder has returned
Staged == pc = "stage" /\ pending = {}

\* organize_files_by_extension has returned
Sorted == pc = "done" \/ (pc = "walk" /\ walk = <<>>)

\* what the selected folder held when it was selected
UserItems(f) == ListDir(f, <<>>) \ {<<"Extracted">>, <<"Merged">>}

\* the direct children of the selected folder that are directories or files
\* whose name ends in '.zip'
Eligible(f) ==
    {n \in ListDir(f, <<>>) :
        IsDir(f, <<n>>) \/ (IsFile(f, <<n>>) /\ EndsWith(n, "zip"))}

\* the selected folder holds nothing but files that are no archives
PlainOnly(f) ==
    \A n \in UserItems(f) : IsFile(f, <<n>>) /\ ~EndsWith(n, "zip")

\* the files below Extracted/ whose name ends in the suffix
Recognized(f, ext) ==
    {p \in FilesUnder(f, <<<<"Extracted">>>>) : EndsWith(Basename(p), ext)}

\* the destination folder of the suffix
Destination(ext) ==
    IF ext = "csv" THEN <<<<"Merged">>, <<"All_CSVs">>>>
    ELSE <<<<"Merged">>, <<"All_PDFs">>>>

(***************************************************************************)
(* C3: the pipeline goes through Idle, Staging, Unpacking, Sorting and     *)
(* Done and ends nowhere else: no run is ended by an error.  Stated for    *)
(* the runs in which the environment makes no operation fail.              *)
(***************************************************************************)
C3_DoneIsTheOnlyEnd == (faults = 0) => (Phase # "Aborted")

(***************************************************************************)
(* C6 as the spec has it: when the sorter has returned and no copy has     *)
(* failed, every file below the root whose name ends in '.csv' or '.pdf'   *)
(* has its copy in the matching folder, and that folder holds no file of   *)
(* another suffix.                                                         *)
(***************************************************************************)
C6_EveryFileHasItsCopy ==
    (Sorted /\ Lines(log, {"sort_error"}) = 0) =>
        \A ext \in {"csv", "pdf"} :
            /\ \A p \in Recognized(fs, ext) :
                /\ IsFile(fs, Join(Destination(ext), Basename(p)))
                /\ fs[Join(Destination(ext), Basename(p))] = fs[p]
            /\ \A n \in ListDir(fs, Destination(ext)) : EndsWith(n, ext)

(***************************************************************************)
(* C6 amended: when the sorter has returned and no copy has failed, every  *)
(* file below the root whose name ends in '.csv' or '.pdf' was copied      *)
(* once, and the matching folder holds one file of its name, with the      *)
(* content of one of the files of that name below the root (its own when   *)
(* no other file has its name: a later copy overwrites an earlier one);    *)
(* the folder holds nothing else, so no file of another suffix is copied.  *)
(***************************************************************************)
C6_OneFilePerName ==
    (Sorted /\ Lines(log, {"sort_error"}) = 0) =>
        \A ext \in {"csv", "pdf"} :
            /\ \A p \in Recognized(fs, ext) :
                /\ IsFile(fs, Join(Destination(ext), Basename(p)))
                /\ \E q \in Recognized(fs, ext) :
                    /\ Basename(q) = Basename(p)
                    /\ fs[Join(Destination(ext), Basename(p))] = fs[q]
                /\ CopiesIn([kind |-> "copied_" \o ext, path |-> p], log) = 1
            /\ ListDir(fs, Destination(ext))
                 = {Basename(p) : p \in Recognized(fs, ext)}

\* the sorter has returned from a tree that holds two files n.csv of
\* different content and a file of another suffix
C6_Witness ==
    /\ Sorted
    /\ Lines(log, {"sort_error"}) = 0
    /\ \E p, q \in Recognized(fs, "csv") :
        Basename(p) = Basename(q) /\ fs[p] # fs[q]
    /\ \E p \in FilesUnder(fs, <<<<"Extracted">>>>) : EndsWith(Basename(p), "txt")
    /\ Recognized(fs, "pdf") # {}

(***************************************************************************)
(* C7: when copy_to_extracted_folder has returned and no copy has failed,  *)
(* the destination is a directory whose children are the direct children   *)
(* of the source that are directories or files whose name ends in '.zip',  *)
(* and no others; each of them is a copy, directories with all that is in  *)
(* them (the destination itself, which is one of them, with what it held   *)
(* when it was copied); and each was logged once and counted once.         *)
(***************************************************************************)
C7_StagedCopies ==
    (Staged /\ Lines(log, {"copy_error"}) = 0) =>
        /\ IsDir(fs, <<<<"Extracted">>>>)
        /\ ListDir(fs, <<<<"Extracted">>>>) = Eligible(fs)
        /\ \A n \in Eligible(fs) \ {<<"Extracted">>} :
            /\ \A p \in DOMAIN fs :
                IsPrefix(<<n>>, p) =>
                    /\ Exists(fs, <<<<"Extracted">>>> \o p)
                    /\ fs[<<<<"Extracted">>>> \o p] = fs[p]
            /\ \A q \in DOMAIN fs :
                IsPrefix(<<<<"Extracted">>, n>>, q) =>
                    Exists(fs, Rel(<<<<"Extracted">>>>, q))
        /\ \A q \in DOMAIN fs :
            IsPrefix(<<<<"Extracted">>, <<"Extracted">>>>, q) =>
                /\ Exists(fs, Rel(<<<<"Extracted">>>>, q))
                /\ fs[q] = fs[Rel(<<<<"Extracted">>>>, q)]
        /\ \A n \in Eligible(fs) :
            CopiesIn([kind |-> IF IsDir(fs, <<n>>) THEN "copied_folder"
                               ELSE "copied_zip",
                      path |-> <<n>>], log) = 1
        /\ Lines(log, {"copied_folder", "copied_zip"}) = Cardinality(Eligible(fs))
        /\ progress = Cardinality(Eligible(fs))

\* the stager has returned from a folder that holds the directory c, the
\* archive a.zip and the plain file n.csv
C7_Witness ==
    /\ Staged
    /\ Lines(log, {"copy_error"}) = 0
    /\ {<<"c">>, <<"a", "zip">>, <<"n", "csv">>} \subseteq ListDir(fs, <<>>)
    /\ IsFile(fs, <<<<"Extracted">>, <<"c">>, <<"n", "csv">>>>)
    /\ IsFile(fs, <<<<"Extracted">>, <<"a", "zip">>>>)
    /\ ~Exists(fs, <<<<"Extracted">>, <<"n", "csv">>>>)

(***************************************************************************)
(* C8 as the spec has it: of a folder that holds only plain files the      *)
(* stager copies every file into the working area, and the unpacker then   *)
(* leaves the tree as it is.                                               *)
(***************************************************************************)
C8_PlainFilesAreStaged ==
    PlainOnly(fs) =>
        /\ (Staged /\ faults = 0) =>
              \A n \in UserItems(fs) : Exists(fs, <<<<"Extracted">>, n>>)
        /\ (Phase = "Unpacking") => (fs = snap /\ extracted = EmptyBag)

(***************************************************************************)
(* C8 amended: of a folder that holds only plain files the stager copies   *)
(* none into the working area (it copies directories and .zip files only), *)
(* and the unpacker then leaves the tree as it is: no extraction, no       *)
(* directory created, no file added or removed.                            *)
(***************************************************************************)
C8_PlainFilesAreNotStaged ==
    PlainOnly(fs) =>
        /\ \A n \in UserItems(fs) : ~Exists(fs, <<<<"Extracted">>, n>>)
        /\ (Phase \in {"Unpacking", "Aborted"}) =>
              (fs = snap /\ extracted = EmptyBag)

\* the unpacker has returned in a folder that holds plain files
C8_Witness ==
    /\ PlainOnly(fs)
    /\ UserItems(fs) # {}
    /\ Unpacked
    /\ faults = 0

(***************************************************************************)
(* C9: after the run on an empty folder Extracted/ is empty, Merged/ holds *)
(* the two empty folders All_CSVs and All_PDFs and nothing else, no copy,  *)
(* extraction or error was logged, and the completion dialog is shown.     *)
(***************************************************************************)
C9_EmptyFolderStaysEmpty ==
    (UserItems(fs) = {} /\ pc = "done" /\ faults = 0) =>
        /\ IsDir(fs, <<<<"Extracted">>>>)
        /\ ListDir(fs, <<<<"Extracted">>>>) = {}
        /\ ListDir(fs, <<<<"Merged">>>>) = {<<"All_CSVs">>, <<"All_PDFs">>}
        /\ ListDir(fs, <<<<"Merged">>, <<"All_CSVs">>>>) = {}
        /\ ListDir(fs, <<<<"Merged">>, <<"All_PDFs">>>>) = {}
        /\ Lines(log, ErrorKinds \cup {"copied_folder", "copied_zip", "extracted",
                                       "copied_csv", "copied_pdf"}) = 0
        /\ dialog = "info"

=============================================================================
